---------------------------- MODULE Spec2Model ----------------------------
(***************************************************************************)
(* Model of the recorder's two Python programs:                            *)
(*   - recorder/scripts/stream_transcribe.py : the live streaming loop     *)
(*   - recorder/scripts/postprocess.py       : the batch pipeline          *)
(*                                                                         *)
(* Units.  Times are integers in milliseconds, a no-speech probability is  *)
(* an integer in 1/10000, a PCM sample is its signed 16-bit integer value, *)
(* a text is a sequence of one-character strings (" " is whitespace).      *)
(***************************************************************************)
EXTENDS Integers, Sequences, FiniteSets, TLC

VARIABLES
    \* ---- stream_transcribe.main ----
    pc,               \* position of the streaming loop
    buffer_seconds,   \* args.buffer_seconds (ms)
    vocab_prompt,     \* args.vocab_prompt (<<>> models None / "")
    elapsed_seconds,  \* ms
    previous_text,
    audio,            \* the chunk returned by the last read_pcm_stdin
    chunk_start,      \* ms
    initial_prompt,
    segments,         \* segments of the current result not yet iterated
    stdout,           \* the JSON lines written so far
    \* ---- history of the streaming run (not program state) ----
    chunks_read,      \* number of non-empty reads so far
    last_read,        \* samples delivered by the last read, before padding
    stream_ended,     \* the source has delivered its last sample
    returned,         \* every segment a transcription call returned, in order
    failures,         \* number of transcription calls that raised
    \* ---- postprocess.main ----
    bpc,              \* position of the batch run
    args,             \* skip_diarization, skip_corrections, enable_llm_corrections
    metadata,         \* json.loads(args.metadata)
    whisper_result,   \* segments of the transcription
    speaker_segments, \* diarization turns
    bsegments,        \* main's `segments`
    speaker_info,
    output,           \* the record written to the transcript file
    raised,           \* the stage whose exception ended the run, or "none"
    speaker_db,       \* the SpeakerDatabase module imports and
                      \* SPEAKER_DB_PATH exists (lines 258-266)
    \* ---- history of the batch run (not state of main) ----
    called,           \* the stage functions main has called, in order
    baligned,         \* align_transcript_with_speakers' `aligned` at line 236
    llm_answer        \* what LLMCorrector.correct returned (line 326)

svars == <<pc, buffer_seconds, vocab_prompt, elapsed_seconds, previous_text,
           audio, chunk_start, initial_prompt, segments, stdout,
           chunks_read, last_read, stream_ended, returned, failures>>

bvars == <<bpc, args, metadata, whisper_result, speaker_segments, bsegments,
           speaker_info, output, raised, speaker_db, called, baligned,
           llm_answer>>

vars == <<svars, bvars>>

---------------------------------------------------------------------------
(* Bounds of the model *)

\* chunks the input source delivers at most
MaxChunks == 3
\* samples per chunk (int(SAMPLE_RATE * buffer_seconds) in the code, scaled)
ChunkSamples == 2
\* segments the engine returns over the whole stream at most
MaxReturned == 3

---------------------------------------------------------------------------
(* Program constants *)

\* stream_transcribe.py:146   no_speech > 0.6
NO_SPEECH_THRESHOLD == 6000
\* stream_transcribe.py:116   previous_text[-200:]
PROMPT_SUFFIX_CHARS == 200
\* stream_transcribe.py:43    --buffer-seconds default 3.0
DEFAULT_BUFFER_SECONDS == 3000

---------------------------------------------------------------------------
(* Pure helpers *)

RECURSIVE SumSq(_)
SumSq(s) == IF s = <<>> THEN 0 ELSE Head(s) * Head(s) + SumSq(Tail(s))

Zeros(n) == [i \in 1..n |-> 0]

IsSpace(c) == c \in {" ", "\n"}

\* str.strip(): drop leading and trailing whitespace
RECURSIVE LStrip(_)
LStrip(t) == IF t # <<>> /\ IsSpace(Head(t)) THEN LStrip(Tail(t)) ELSE t

RECURSIVE RStrip(_)
RStrip(t) ==
    IF t # <<>> /\ IsSpace(t[Len(t)])
    THEN RStrip(SubSeq(t, 1, Len(t) - 1)) ELSE t

Strip(t) == RStrip(LStrip(t))

\* t[-n:]
LastChars(t, n) == IF Len(t) <= n THEN t ELSE SubSeq(t, Len(t) - n + 1, Len(t))

\* Python round(x, d) for x >= 0 held as an integer number of units: the
\* nearest multiple of unit, an exact tie going to the even multiple (the
\* inputs drawn below are exactly representable in binary wherever they tie).
Round(x, unit) ==
    LET q == x \div unit
        r == x % unit
    IN  IF 2 * r < unit THEN q * unit
        ELSE IF 2 * r > unit THEN (q + 1) * unit
        ELSE IF q % 2 = 0 THEN q * unit ELSE (q + 1) * unit

\* A gate at half the level (rms < 0.0025): a chunk of level 163 passes it.
IsSilentHalfLevel(a) == SumSq(a) * 625 < Len(a) * 4194304

\* rms = sqrt(mean(audio**2)) < 0.005 with audio = int16 / 32768.0:
\*   sum(s^2) / (n * 2^30) < 25 / 10^6   <=>   sum(s^2) * 625 < n * 2^24
IsSilent(a) == SumSq(a) * 625 < Len(a) * 16777216

\* A prompt built from the whole previous text, not its last 200 characters.
BuildPromptUntruncated(vocab, prev) ==
    IF prev # <<>> THEN Strip(vocab \o <<" ">> \o prev) ELSE vocab

\* lines 110-117: the prompt handed to the engine (<<>> is passed as None)
BuildPrompt(vocab, prev) ==
    IF prev # <<>>
    THEN Strip(vocab \o <<" ">> \o LastChars(prev, PROMPT_SUFFIX_CHARS))
    ELSE vocab

\* A segment line with the times as the engine gave them.
SegmentMsgChunkRelative(cstart, seg, text) ==
    [kind |-> "segment", text |-> text,
     start |-> Round(seg.start, 10),
     end |-> Round(seg.end, 10),
     no_speech_prob |-> Round(seg.no_speech_prob, 10),
     total_seconds |-> 0]

\* lines 149-155: the segment line
SegmentMsg(cstart, seg, text) ==
    [kind |-> "segment", text |-> text,
     start |-> Round(cstart + seg.start, 10),
     end |-> Round(cstart + seg.end, 10),
     no_speech_prob |-> Round(seg.no_speech_prob, 10),
     total_seconds |-> 0]

ReadyMsg ==
    [kind |-> "ready", text |-> <<>>, start |-> 0, end |-> 0,
     no_speech_prob |-> 0, total_seconds |-> 0]

DoneMsg(elapsed) ==
    [kind |-> "done", text |-> <<>>, start |-> 0, end |-> 0,
     no_speech_prob |-> 0, total_seconds |-> Round(elapsed, 100)]

---------------------------------------------------------------------------
(* Inputs *)

\* PCM sample values: 163/32768 < 0.005 <= 164/32768
SampleValues == {0, 163, 164, 300}

\* what one read of the source can deliver: 1..ChunkSamples samples, here
\* of one level (a short read is padded, so mixed chunks occur as well)
ReadData == {[i \in 1..n |-> v] : n \in 1..ChunkSamples, v \in SampleValues}

BufferChoices == {DEFAULT_BUFFER_SECONDS, 250}

VocabChoices == {<<>>, <<"v">>}

LongText == [i \in 1..(PROMPT_SUFFIX_CHARS + 1) |->
                IF i = 1 THEN "x" ELSE IF i = 2 THEN " " ELSE "y"]

\* segments the engine may return (chunk-relative times)
SegChoices ==
    { [text |-> <<" ", "h", "i">>, start |-> 0, end |-> 1234,
       no_speech_prob |-> NO_SPEECH_THRESHOLD],
      [text |-> <<"y", "o">>, start |-> 1500, end |-> 2996,
       no_speech_prob |-> NO_SPEECH_THRESHOLD + 1],
      [text |-> <<" ">>, start |-> 0, end |-> 500, no_speech_prob |-> 100],
      [text |-> LongText, start |-> 2000, end |-> 3000,
       no_speech_prob |-> 1234] }

Results(n) == UNION {[1..k -> SegChoices] : k \in 0..n}

---------------------------------------------------------------------------
(* stream_transcribe.main *)

\* lines 80-85: the streaming program starts; the batch program does not run
Init ==
    /\ pc = "START"
    /\ buffer_seconds \in BufferChoices
    /\ vocab_prompt \in VocabChoices
    /\ elapsed_seconds = 0
    /\ previous_text = <<>>
    /\ audio = <<>>
    /\ chunk_start = 0
    /\ initial_prompt = <<>>
    /\ segments = <<>>
    /\ stdout = <<>>
    /\ chunks_read = 0
    /\ last_read = <<>>
    /\ stream_ended = FALSE
    /\ returned = <<>>
    /\ failures = 0
    /\ bpc = "IDLE"
    /\ args = [skip_diarization |-> FALSE, skip_corrections |-> FALSE,
               enable_llm_corrections |-> FALSE]
    /\ metadata = <<>>
    /\ whisper_result = <<>>
    /\ speaker_segments = <<>>
    /\ bsegments = <<>>
    /\ speaker_info = <<>>
    /\ output = <<>>
    /\ raised = "none"
    /\ speaker_db = FALSE
    /\ called = <<>>
    /\ baligned = <<>>
    /\ llm_answer = <<>>

\* A start that enters the loop without announcing readiness.
EmitReadySilently ==
    /\ pc = "START"
    /\ elapsed_seconds' = 0
    /\ previous_text' = <<>>
    /\ pc' = "AWAITING_CHUNK"
    /\ UNCHANGED <<buffer_seconds, vocab_prompt, audio, chunk_start,
                   initial_prompt, segments, stdout, chunks_read, last_read,
                   stream_ended, returned, failures>>
    /\ UNCHANGED bvars

\* lines 87-93
EmitReady ==
    /\ pc = "START"
    /\ stdout' = Append(stdout, ReadyMsg)
    /\ elapsed_seconds' = 0
    /\ previous_text' = <<>>
    /\ pc' = "AWAITING_CHUNK"
    /\ UNCHANGED <<buffer_seconds, vocab_prompt, audio, chunk_start,
                   initial_prompt, segments, chunks_read, last_read,
                   stream_ended, returned, failures>>
    /\ UNCHANGED bvars

\* A read that hands a short chunk on as it is.
PadNothing(data) == data

\* read_pcm_stdin's padding (lines 70-72)
Pad(data) == data \o Zeros(ChunkSamples - Len(data))

\* A read that leaves chunk_start as it was.
ReadChunkKeepsOffset ==
    /\ pc = "AWAITING_CHUNK"
    /\ ~stream_ended
    /\ chunks_read < MaxChunks
    /\ \E data \in ReadData :
         /\ audio' = Pad(data)
         /\ last_read' = data
         /\ stream_ended' = (Len(data) < ChunkSamples)
    /\ elapsed_seconds' = elapsed_seconds + buffer_seconds
    /\ chunks_read' = chunks_read + 1
    /\ pc' = "SILENCE_CHECK"
    /\ UNCHANGED <<buffer_seconds, vocab_prompt, previous_text, chunk_start,
                   initial_prompt, segments, stdout, returned, failures>>
    /\ UNCHANGED bvars

\* lines 96, 101-103 with read_pcm_stdin returning samples: the read blocks
\* until a whole chunk or the end of the stream
ReadChunk ==
    /\ pc = "AWAITING_CHUNK"
    /\ ~stream_ended
    /\ chunks_read < MaxChunks
    /\ \E data \in ReadData :
         /\ audio' = Pad(data)
         /\ last_read' = data
         /\ stream_ended' = (Len(data) < ChunkSamples)
    /\ chunk_start' = elapsed_seconds
    /\ elapsed_seconds' = elapsed_seconds + buffer_seconds
    /\ chunks_read' = chunks_read + 1
    /\ pc' = "SILENCE_CHECK"
    /\ UNCHANGED <<buffer_seconds, vocab_prompt, previous_text,
                   initial_prompt, segments, stdout, returned, failures>>
    /\ UNCHANGED bvars

\* lines 96-99 with read_pcm_stdin returning None
ReadEof ==
    /\ pc = "AWAITING_CHUNK"
    /\ last_read' = <<>>
    /\ stream_ended' = TRUE
    /\ pc' = "EOF"
    /\ UNCHANGED <<buffer_seconds, vocab_prompt, elapsed_seconds,
                   previous_text, audio, chunk_start, initial_prompt,
                   segments, stdout, chunks_read, returned, failures>>
    /\ UNCHANGED bvars

\* A silence gate that takes the elapsed time of a skipped chunk back.
SilenceCheckRewinds ==
    /\ pc = "SILENCE_CHECK"
    /\ IF IsSilent(audio)
       THEN /\ pc' = "AWAITING_CHUNK"
            /\ elapsed_seconds' = chunk_start
            /\ UNCHANGED initial_prompt
       ELSE /\ initial_prompt' = BuildPrompt(vocab_prompt, previous_text)
            /\ pc' = "TRANSCRIBING"
            /\ UNCHANGED elapsed_seconds
    /\ UNCHANGED <<buffer_seconds, vocab_prompt, previous_text, audio,
                   chunk_start, segments, stdout, chunks_read, last_read,
                   stream_ended, returned, failures>>
    /\ UNCHANGED bvars

\* lines 105-117
SilenceCheck ==
    /\ pc = "SILENCE_CHECK"
    /\ IF IsSilent(audio)
       THEN /\ pc' = "AWAITING_CHUNK"
            /\ UNCHANGED initial_prompt
       ELSE /\ initial_prompt' = BuildPrompt(vocab_prompt, previous_text)
            /\ pc' = "TRANSCRIBING"
    /\ UNCHANGED <<buffer_seconds, vocab_prompt, elapsed_seconds,
                   previous_text, audio, chunk_start, segments, stdout,
                   chunks_read, last_read, stream_ended, returned, failures>>
    /\ UNCHANGED bvars

\* lines 119-132, 137: the call returns a result
TranscribeOk ==
    /\ pc = "TRANSCRIBING"
    /\ \E res \in Results(MaxReturned - Len(returned)) :
         /\ segments' = res
         /\ returned' = returned \o
                [i \in 1..Len(res) |-> [chunk |-> chunks_read, seg |-> res[i]]]
    /\ pc' = "EMITTING"
    /\ UNCHANGED <<buffer_seconds, vocab_prompt, elapsed_seconds,
                   previous_text, audio, chunk_start, initial_prompt, stdout,
                   chunks_read, last_read, stream_ended, failures>>
    /\ UNCHANGED bvars

\* A failure that leaves the loop instead of going on to the next chunk.
TranscribeFailEndsLoop ==
    /\ pc = "TRANSCRIBING"
    /\ failures' = failures + 1
    /\ pc' = "EOF"
    /\ UNCHANGED <<buffer_seconds, vocab_prompt, elapsed_seconds,
                   previous_text, audio, chunk_start, initial_prompt,
                   segments, stdout, chunks_read, last_read,
                   stream_ended, returned>>
    /\ UNCHANGED bvars

\* lines 133-135: the call raises
TranscribeFail ==
    /\ pc = "TRANSCRIBING"
    /\ failures' = failures + 1
    /\ pc' = "AWAITING_CHUNK"
    /\ UNCHANGED <<buffer_seconds, vocab_prompt, elapsed_seconds,
                   previous_text, audio, chunk_start, initial_prompt,
                   segments, stdout, chunks_read, last_read,
                   stream_ended, returned>>
    /\ UNCHANGED bvars

\* A filter that also discards a probability of exactly the threshold.
AcceptsBelowThreshold(seg) ==
    /\ Strip(seg.text) # <<>>
    /\ ~(seg.no_speech_prob >= NO_SPEECH_THRESHOLD)

\* lines 139-147: the segment is written
Accepts(seg) ==
    /\ Strip(seg.text) # <<>>
    /\ ~(seg.no_speech_prob > NO_SPEECH_THRESHOLD)

\* A for loop that a discarded segment breaks out of, dropping the rest.
ProcessSegmentBreaks ==
    /\ pc = "EMITTING"
    /\ segments # <<>>
    /\ LET seg == Head(segments)
           text == Strip(seg.text)
       IN  IF Accepts(seg)
           THEN /\ stdout' = Append(stdout, SegmentMsg(chunk_start, seg, text))
                /\ previous_text' = text
                /\ segments' = Tail(segments)
           ELSE /\ UNCHANGED <<stdout, previous_text>>
                /\ segments' = <<>>
    /\ UNCHANGED <<pc, buffer_seconds, vocab_prompt, elapsed_seconds, audio,
                   chunk_start, initial_prompt, chunks_read, last_read,
                   stream_ended, returned, failures>>
    /\ UNCHANGED bvars

\* lines 138-159: one iteration of the for loop
ProcessSegment ==
    /\ pc = "EMITTING"
    /\ segments # <<>>
    /\ LET seg == Head(segments)
           text == Strip(seg.text)
       IN  IF Accepts(seg)
           THEN /\ stdout' = Append(stdout, SegmentMsg(chunk_start, seg, text))
                /\ previous_text' = text
           ELSE UNCHANGED <<stdout, previous_text>>
    /\ segments' = Tail(segments)
    /\ UNCHANGED <<pc, buffer_seconds, vocab_prompt, elapsed_seconds, audio,
                   chunk_start, initial_prompt, chunks_read, last_read,
                   stream_ended, returned, failures>>
    /\ UNCHANGED bvars

\* A cycle that leaves the loop after its segments instead of reading on.
EndOfSegmentsEndsLoop ==
    /\ pc = "EMITTING"
    /\ segments = <<>>
    /\ pc' = "EOF"
    /\ UNCHANGED <<buffer_seconds, vocab_prompt, elapsed_seconds,
                   previous_text, audio, chunk_start, initial_prompt,
                   segments, stdout, chunks_read, last_read,
                   stream_ended, returned, failures>>
    /\ UNCHANGED bvars

\* line 138: the for loop is exhausted, back to line 95
EndOfSegments ==
    /\ pc = "EMITTING"
    /\ segments = <<>>
    /\ pc' = "AWAITING_CHUNK"
    /\ UNCHANGED <<buffer_seconds, vocab_prompt, elapsed_seconds,
                   previous_text, audio, chunk_start, initial_prompt,
                   segments, stdout, chunks_read, last_read,
                   stream_ended, returned, failures>>
    /\ UNCHANGED bvars

\* lines 161-164
EmitDone ==
    /\ pc = "EOF"
    /\ stdout' = Append(stdout, DoneMsg(elapsed_seconds))
    /\ pc' = "DONE"
    /\ UNCHANGED <<buffer_seconds, vocab_prompt, elapsed_seconds,
                   previous_text, audio, chunk_start, initial_prompt,
                   segments, chunks_read, last_read, stream_ended,
                   returned, failures>>
    /\ UNCHANGED bvars

StreamNext ==
    \/ EmitReady
    \/ ReadChunk
    \/ ReadEof
    \/ SilenceCheck
    \/ TranscribeOk
    \/ TranscribeFail
    \/ ProcessSegment
    \/ EndOfSegments
    \/ EmitDone

---------------------------------------------------------------------------
(* postprocess.py: bounds and program constants *)

\* segments the batch transcription returns at most
MaxBatchSegs == 2
\* turns the diarization returns at most
MaxTurns == 2

\* postprocess.py:205   min_dist < 2.0
NEAREST_MAX_SECONDS == 2000
\* postprocess.py:242   gap < 1.5
MERGE_GAP_SECONDS == 1500

UNKNOWN == <<"U", "n", "k", "n", "o", "w", "n">>

---------------------------------------------------------------------------
(* postprocess.py: pure functions *)

\* dict.get(k, default)
Get(d, k, default) == IF k \in DOMAIN d THEN d[k] ELSE default

Abs(x) == IF x < 0 THEN -x ELSE x

Min2(a, b) == IF b < a THEN b ELSE a

\* The label of the last turn that contains the point.
RECURSIVE LastContaining(_, _)
LastContaining(turns, t2) ==
    IF turns = <<>> THEN <<>>
    ELSE LET n == Len(turns)
         IN  IF 2 * turns[n].start <= t2 /\ t2 <= 2 * turns[n].end
             THEN <<turns[n].speaker>>
             ELSE LastContaining(SubSeq(turns, 1, n - 1), t2)

\* find_speaker_at, lines 194-196; t2 is twice the time point, so that the
\* midpoint (start + end) / 2 is held exactly.  <<label>>, or <<>> if no
\* turn contains the point
RECURSIVE FirstContaining(_, _)
FirstContaining(turns, t2) ==
    IF turns = <<>> THEN <<>>
    ELSE IF 2 * Head(turns).start <= t2 /\ t2 <= 2 * Head(turns).end
         THEN <<Head(turns).speaker>>
         ELSE FirstContaining(Tail(turns), t2)

\* find_speaker_at, lines 198-204; best.inf stands for min_dist = inf
RECURSIVE Nearest(_, _, _)
Nearest(turns, t2, best) ==
    IF turns = <<>> THEN best
    ELSE LET ss == Head(turns)
             dist == Min2(Abs(2 * ss.start - t2), Abs(2 * ss.end - t2))
         IN  Nearest(Tail(turns), t2,
                     IF best.inf \/ dist < best.dist
                     THEN [inf |-> FALSE, dist |-> dist, speaker |-> ss.speaker]
                     ELSE best)

\* A resolution that takes the nearest turn at 2.0 s too.
FindSpeakerUpToMax(turns, t2) ==
    LET hit == FirstContaining(turns, t2)
    IN  IF hit # <<>> THEN hit[1]
        ELSE LET n == Nearest(turns, t2,
                              [inf |-> TRUE, dist |-> 0, speaker |-> UNKNOWN])
             IN  IF ~n.inf /\ n.dist <= 2 * NEAREST_MAX_SECONDS
                 THEN n.speaker ELSE UNKNOWN

\* A resolution by the nearest turn alone.
NearestSpeakerAt(turns, t2) ==
    LET n == Nearest(turns, t2,
                     [inf |-> TRUE, dist |-> 0, speaker |-> UNKNOWN])
    IN  IF ~n.inf /\ n.dist < 2 * NEAREST_MAX_SECONDS
        THEN n.speaker ELSE UNKNOWN

\* lines 192-205
find_speaker_at(turns, t2) ==
    LET hit == FirstContaining(turns, t2)
    IN  IF hit # <<>> THEN hit[1]
        ELSE LET n == Nearest(turns, t2,
                              [inf |-> TRUE, dist |-> 0, speaker |-> UNKNOWN])
             IN  IF ~n.inf /\ n.dist < 2 * NEAREST_MAX_SECONDS
                 THEN n.speaker ELSE UNKNOWN

\* line 221 on a dict, which keeps its keys in insertion order
AddVote(votes, spk) ==
    IF \E i \in 1..Len(votes) : votes[i].label = spk
    THEN [i \in 1..Len(votes) |->
             IF votes[i].label = spk
             THEN [label |-> spk, count |-> votes[i].count + 1]
             ELSE votes[i]]
    ELSE Append(votes, [label |-> spk, count |-> 1])

\* lines 217-221
RECURSIVE SpeakerVotes(_, _, _, _)
SpeakerVotes(words, seg, turns, votes) ==
    IF words = <<>> THEN votes
    ELSE LET word == Head(words)
             mid2 == Get(word, "start", seg.start) + Get(word, "end", seg.end)
         IN  SpeakerVotes(Tail(words), seg, turns,
                          AddVote(votes, find_speaker_at(turns, mid2)))

\* line 222: max(d, key=d.get) is the first key, in the dict's order, whose
\* count no other key exceeds
MaxVote(votes) ==
    LET i == CHOOSE i \in 1..Len(votes) :
                 /\ \A j \in 1..Len(votes) : votes[j].count <= votes[i].count
                 /\ \A j \in 1..(i - 1) : votes[j].count < votes[i].count
    IN  votes[i].label

\* An aligned segment that keeps the text as the transcript gave it.
AlignSegmentUntrimmed(seg, turns) ==
    LET words == Get(seg, "words", <<>>)
        speaker ==
            IF words # <<>>
            THEN MaxVote(SpeakerVotes(words, seg, turns, <<>>))
            ELSE find_speaker_at(turns, seg.start + seg.end)
    IN  [start |-> Round(seg.start, 10), end |-> Round(seg.end, 10),
         text |-> Get(seg, "text", <<>>), speaker |-> speaker]

\* lines 213-234 for one segment whose text is not blank
AlignSegment(seg, turns) ==
    LET words == Get(seg, "words", <<>>)
        speaker ==
            IF words # <<>>
            THEN MaxVote(SpeakerVotes(words, seg, turns, <<>>))
            ELSE find_speaker_at(turns, seg.start + seg.end)
    IN  [start |-> Round(seg.start, 10), end |-> Round(seg.end, 10),
         text |-> Strip(Get(seg, "text", <<>>)), speaker |-> speaker]

\* lines 207-234
RECURSIVE Aligned(_, _)
Aligned(segs, turns) ==
    IF segs = <<>> THEN <<>>
    ELSE IF Strip(Get(Head(segs), "text", <<>>)) = <<>>
         THEN Aligned(Tail(segs), turns)
         ELSE <<AlignSegment(Head(segs), turns)>> \o Aligned(Tail(segs), turns)

\* A merge loop that extends the end and drops the text of what it merges.
RECURSIVE MergeDropsText(_, _)
MergeDropsText(aligned, merged) ==
    IF aligned = <<>> THEN merged
    ELSE LET seg == Head(aligned)
             n == Len(merged)
         IN  IF /\ n > 0
                /\ merged[n].speaker = seg.speaker
                /\ seg.start - merged[n].end < MERGE_GAP_SECONDS
             THEN MergeDropsText(Tail(aligned),
                                 [merged EXCEPT ![n].end = seg.end])
             ELSE MergeDropsText(Tail(aligned), Append(merged, seg))

\* A merge loop that moves the start of the accumulated segment as well.
RECURSIVE MergeMovingStart(_, _)
MergeMovingStart(aligned, merged) ==
    IF aligned = <<>> THEN merged
    ELSE LET seg == Head(aligned)
             n == Len(merged)
         IN  IF /\ n > 0
                /\ merged[n].speaker = seg.speaker
                /\ seg.start - merged[n].end < MERGE_GAP_SECONDS
             THEN MergeMovingStart(Tail(aligned),
                        [merged EXCEPT ![n].start = seg.start,
                                       ![n].end = seg.end,
                                       ![n].text = @ \o <<" ">> \o seg.text])
             ELSE MergeMovingStart(Tail(aligned), Append(merged, seg))

\* A merge loop that also merges at a gap of exactly 1.5 s.
RECURSIVE MergeUpToGap(_, _)
MergeUpToGap(aligned, merged) ==
    IF aligned = <<>> THEN merged
    ELSE LET seg == Head(aligned)
             n == Len(merged)
         IN  IF /\ n > 0
                /\ merged[n].speaker = seg.speaker
                /\ seg.start - merged[n].end <= MERGE_GAP_SECONDS
             THEN MergeUpToGap(Tail(aligned),
                        [merged EXCEPT ![n].end = seg.end,
                                       ![n].text = @ \o <<" ">> \o seg.text])
             ELSE MergeUpToGap(Tail(aligned), Append(merged, seg))

\* lines 236-246
RECURSIVE Merge(_, _)
Merge(aligned, merged) ==
    IF aligned = <<>> THEN merged
    ELSE LET seg == Head(aligned)
             n == Len(merged)
         IN  IF /\ n > 0
                /\ merged[n].speaker = seg.speaker
                /\ seg.start - merged[n].end < MERGE_GAP_SECONDS
             THEN Merge(Tail(aligned),
                        [merged EXCEPT ![n].end = seg.end,
                                       ![n].text = @ \o <<" ">> \o seg.text])
             ELSE Merge(Tail(aligned), Append(merged, seg))

\* An empty-turns branch that keeps the segments whose text is blank.
UnattributedKeepsBlank(segs) ==
    [i \in 1..Len(segs) |->
        [start |-> Round(segs[i].start, 10), end |-> Round(segs[i].end, 10),
         text |-> Strip(segs[i].text), speaker |-> UNKNOWN]]

\* lines 179-190
RECURSIVE Unattributed(_)
Unattributed(segs) ==
    IF segs = <<>> THEN <<>>
    ELSE IF Strip(Get(Head(segs), "text", <<>>)) = <<>>
         THEN Unattributed(Tail(segs))
         ELSE << [start |-> Round(Head(segs).start, 10),
                  end |-> Round(Head(segs).end, 10),
                  text |-> Strip(Head(segs).text),
                  speaker |-> UNKNOWN] >> \o Unattributed(Tail(segs))

\* lines 171-248
align_transcript_with_speakers(segs, turns) ==
    IF turns = <<>> THEN Unattributed(segs)
    ELSE Merge(Aligned(segs, turns), <<>>)

\* Python orders strings by code point
CodePoint(c) ==
    CASE c = "\n" -> 10 [] c = " " -> 32
      [] c = "A" -> 65 [] c = "B" -> 66 [] c = "U" -> 85 [] c = "X" -> 88
      [] c = "[" -> 91 [] c = "]" -> 93
      [] OTHER -> 100

RECURSIVE StrLess(_, _)
StrLess(a, b) ==
    IF b = <<>> THEN FALSE
    ELSE IF a = <<>> THEN TRUE
    ELSE IF Head(a) = Head(b) THEN StrLess(Tail(a), Tail(b))
    ELSE CodePoint(Head(a)) < CodePoint(Head(b))

\* The labels from the greatest to the least.
RECURSIVE SortedDescending(_)
SortedDescending(S) ==
    IF S = {} THEN <<>>
    ELSE LET m == CHOOSE x \in S : \A y \in S \ {x} : StrLess(y, x)
         IN  <<m>> \o SortedDescending(S \ {m})

\* sorted(S), line 274
RECURSIVE Sorted(_)
Sorted(S) ==
    IF S = {} THEN <<>>
    ELSE LET m == CHOOSE x \in S : \A y \in S \ {x} : StrLess(x, y)
         IN  <<m>> \o Sorted(S \ {m})

\* lines 269-278
SpeakerInfo(segs) ==
    LET unique_speakers ==
            {segs[i].speaker : i \in {j \in 1..Len(segs) :
                                         segs[j].speaker # UNKNOWN}}
        labels == Sorted(unique_speakers)
    IN  [i \in 1..Len(labels) |->
            [label |-> labels[i], name |-> labels[i], confidence |-> 0]]

\* lines 304-308, with what corrector.correct returned for each text
Corrected(segs, answers) ==
    [i \in 1..Len(segs) |->
        IF answers[i].total_replacements > 0
        THEN [segs[i] EXCEPT !.text = answers[i].text]
        ELSE segs[i]]

\* "\n".join(...)
RECURSIVE Join(_)
Join(lines) ==
    IF lines = <<>> THEN <<>>
    ELSE IF Len(lines) = 1 THEN lines[1]
    ELSE lines[1] \o <<"\n">> \o Join(Tail(lines))

\* str.split("\n")
RECURSIVE SplitLines(_, _)
SplitLines(t, line) ==
    IF t = <<>> THEN <<line>>
    ELSE IF Head(t) = "\n" THEN <<line>> \o SplitLines(Tail(t), <<>>)
    ELSE SplitLines(Tail(t), Append(line, Head(t)))

\* A block of the texts alone, one per line.
FullTextWithoutLabels(segs) ==
    Join([i \in 1..Len(segs) |-> segs[i].text])

\* lines 324 and 349-351
FullText(segs) ==
    Join([i \in 1..Len(segs) |->
             <<"[">> \o segs[i].speaker \o <<"]", " ">> \o segs[i].text])

\* what follows the first "] " of the line, or <<>> marked absent
RECURSIVE AfterBracket(_)
AfterBracket(line) ==
    IF Len(line) < 2 THEN [found |-> FALSE, rest |-> <<>>]
    ELSE IF line[1] = "]" /\ line[2] = " "
         THEN [found |-> TRUE, rest |-> SubSeq(line, 3, Len(line))]
         ELSE AfterBracket(Tail(line))

\* A line taken as the corrector wrote it, label and all.
StripPrefixKeepsLabel(line) == line

\* lines 334-335
StripPrefix(line) ==
    IF line # <<>> /\ line[1] = "[" /\ AfterBracket(line).found
    THEN AfterBracket(line).rest
    ELSE line

\* A re-split that keeps only as many segments as there are lines.
ResplitDropsExcess(segs, corrected_text, total_corrections) ==
    IF total_corrections > 0
    THEN LET lines == SplitLines(Strip(corrected_text), <<>>)
             n == IF Len(lines) < Len(segs) THEN Len(lines) ELSE Len(segs)
         IN  [i \in 1..n |-> [segs[i] EXCEPT !.text = StripPrefix(lines[i])]]
    ELSE segs

\* lines 327-336
Resplit(segs, corrected_text, total_corrections) ==
    IF total_corrections > 0
    THEN LET lines == SplitLines(Strip(corrected_text), <<>>)
         IN  [i \in 1..Len(segs) |->
                 IF i <= Len(lines)
                 THEN [segs[i] EXCEPT !.text = StripPrefix(lines[i])]
                 ELSE segs[i]]
    ELSE segs

\* lines 349-361 (model, audioFile and processedAt are left out)
build_output(segs, info, meta) ==
    [meetingId |-> Get(meta, "meetingId", <<>>),
     title |-> Get(meta, "title", <<>>),
     startTime |-> Get(meta, "startTime", <<>>),
     endTime |-> Get(meta, "endTime", <<>>),
     attendees |-> Get(meta, "attendees", <<>>),
     segments |-> segs,
     fullText |-> FullText(segs),
     speakers |-> info]

---------------------------------------------------------------------------
(* postprocess.py: inputs *)

BatchSegPool ==
    { [start |-> 0, end |-> 2000, text |-> <<"h", "i">>],
      [start |-> 2000, end |-> 4004, text |-> <<" ", "y", "o", " ">>,
       words |-> << [start |-> 2000, end |-> 2500], [end |-> 3600],
                    [start |-> 3600, end |-> 4000] >>],
      [start |-> 4000, end |-> 5000, text |-> <<" ">>] }

WhisperChoices == UNION {[1..n -> BatchSegPool] : n \in 0..MaxBatchSegs}

TurnPool ==
    { [start |-> 0, end |-> 3004, speaker |-> <<"B">>],
      [start |-> 3000, end |-> 5000, speaker |-> <<"A">>] }

TurnChoices == UNION {[1..n -> TurnPool] : n \in 0..MaxTurns}

MetadataChoices ==
    { <<>>,
      [meetingId |-> <<"m">>, title |-> <<"t">>, startTime |-> <<"s">>,
       endTime |-> <<"e">>, attendees |-> << <<"A">> >>] }

\* what DictionaryCorrector.correct may answer for one text
DictAnswers(text) ==
    { [text |-> text, total_replacements |-> 0],
      [text |-> <<"f", "i", "x">>, total_replacements |-> 1] }

\* what LLMCorrector.correct may answer for the block
LlmAnswers(full_text) ==
    { [text |-> full_text, total_corrections |-> 0],
      [text |-> full_text, total_corrections |-> 1],
      [text |-> <<"[", "X", "]", " ", "o", "k">>, total_corrections |-> 1],
      [text |-> <<"a", "\n", "[", "A", "]", " ", "b", "]", " ", "c", "\n",
                  "d", "\n">>, total_corrections |-> 2],
      [text |-> <<"\n", "[", "A", "]", " ", "z">>, total_corrections |-> 1],
      [text |-> <<>>, total_corrections |-> 1] }

---------------------------------------------------------------------------
(* postprocess.main *)

\* lines 369-376: the batch program starts; the streaming program does not run
BatchInit ==
    /\ bpc = "TRANSCRIBE"
    /\ args \in [skip_diarization : BOOLEAN, skip_corrections : BOOLEAN,
                 enable_llm_corrections : BOOLEAN]
    /\ metadata \in MetadataChoices
    /\ whisper_result = <<>>
    /\ speaker_segments = <<>>
    /\ bsegments = <<>>
    /\ speaker_info = <<>>
    /\ output = <<>>
    /\ raised = "none"
    /\ speaker_db \in BOOLEAN
    /\ called = <<>>
    /\ baligned = <<>>
    /\ llm_answer = <<>>
    /\ pc = "IDLE"
    /\ buffer_seconds = 0
    /\ vocab_prompt = <<>>
    /\ elapsed_seconds = 0
    /\ previous_text = <<>>
    /\ audio = <<>>
    /\ chunk_start = 0
    /\ initial_prompt = <<>>
    /\ segments = <<>>
    /\ stdout = <<>>
    /\ chunks_read = 0
    /\ last_read = <<>>
    /\ stream_ended = FALSE
    /\ returned = <<>>
    /\ failures = 0

\* an exception no handler catches ends the run
Abort(stage) ==
    /\ raised' = stage
    /\ bpc' = "ABORTED"
    /\ UNCHANGED <<args, metadata, whisper_result, speaker_segments,
                   bsegments, speaker_info, output>>
    /\ called' = Append(called, stage)
    /\ UNCHANGED <<speaker_db, baligned, llm_answer>>
    /\ UNCHANGED svars

\* line 379, transcribe_audio returning
Transcribe ==
    /\ bpc = "TRANSCRIBE"
    /\ whisper_result' \in WhisperChoices
    /\ bpc' = "DIARIZE"
    /\ UNCHANGED <<args, metadata, speaker_segments, bsegments, speaker_info,
                   output, raised>>
    /\ called' = Append(called, "transcription")
    /\ UNCHANGED <<speaker_db, baligned, llm_answer>>
    /\ UNCHANGED svars

\* line 379, transcribe_audio raising (lines 84-96 have no handler)
TranscribeRaises ==
    /\ bpc = "TRANSCRIBE"
    /\ Abort("transcription")

\* lines 382-383 with --skip-diarization
SkipDiarization ==
    /\ bpc = "DIARIZE"
    /\ args.skip_diarization
    /\ speaker_segments' = <<>>
    /\ bpc' = "ALIGN"
    /\ UNCHANGED <<args, metadata, whisper_result, bsegments, speaker_info,
                   output, raised>>
    /\ UNCHANGED <<speaker_db, called, baligned, llm_answer>>
    /\ UNCHANGED svars

\* lines 140-144: pyannote.audio cannot be imported
DiarizationUnavailable ==
    /\ bpc = "DIARIZE"
    /\ ~args.skip_diarization
    /\ speaker_segments' = <<>>
    /\ bpc' = "ALIGN"
    /\ UNCHANGED <<args, metadata, whisper_result, bsegments, speaker_info,
                   output, raised>>
    /\ called' = Append(called, "diarization")
    /\ UNCHANGED <<speaker_db, baligned, llm_answer>>
    /\ UNCHANGED svars

\* lines 146-168: the pipeline returns its turns
Diarize ==
    /\ bpc = "DIARIZE"
    /\ ~args.skip_diarization
    /\ \E turns \in TurnChoices :
         speaker_segments' =
            [i \in 1..Len(turns) |->
                [start |-> Round(turns[i].start, 10),
                 end |-> Round(turns[i].end, 10),
                 speaker |-> turns[i].speaker]]
    /\ bpc' = "ALIGN"
    /\ UNCHANGED <<args, metadata, whisper_result, bsegments, speaker_info,
                   output, raised>>
    /\ called' = Append(called, "diarization")
    /\ UNCHANGED <<speaker_db, baligned, llm_answer>>
    /\ UNCHANGED svars

\* lines 146-157: loading or running the pipeline raises (no handler)
DiarizationRaises ==
    /\ bpc = "DIARIZE"
    /\ ~args.skip_diarization
    /\ Abort("diarization")

\* lines 387-388
Align ==
    /\ bpc = "ALIGN"
    /\ bsegments' =
          align_transcript_with_speakers(whisper_result, speaker_segments)
    /\ bpc' = "IDENTIFY"
    /\ UNCHANGED <<args, metadata, whisper_result, speaker_segments,
                   speaker_info, output, raised>>
    /\ called' = Append(called, "align")
    /\ baligned' = IF speaker_segments = <<>> THEN <<>>
                 ELSE Aligned(whisper_result, speaker_segments)
    /\ UNCHANGED <<speaker_db, llm_answer>>
    /\ UNCHANGED svars

\* lines 258-266: no SpeakerDatabase module, or no database file
IdentifyUnavailable ==
    /\ bpc = "IDENTIFY"
    /\ ~speaker_db
    /\ speaker_info' = <<>>
    /\ bpc' = "CORRECT"
    /\ UNCHANGED <<args, metadata, whisper_result, speaker_segments,
                   bsegments, output, raised>>
    /\ called' = Append(called, "identification")
    /\ UNCHANGED <<speaker_db, baligned, llm_answer>>
    /\ UNCHANGED svars

\* lines 268-286 (speaker_map stays empty, so lines 281-284 do nothing)
Identify ==
    /\ bpc = "IDENTIFY"
    /\ speaker_db
    /\ speaker_info' = SpeakerInfo(bsegments)
    /\ bpc' = "CORRECT"
    /\ UNCHANGED <<args, metadata, whisper_result, speaker_segments,
                   bsegments, output, raised>>
    /\ called' = Append(called, "identification")
    /\ UNCHANGED <<speaker_db, baligned, llm_answer>>
    /\ UNCHANGED svars

\* line 268: opening the database raises (no handler)
IdentifyRaises ==
    /\ bpc = "IDENTIFY"
    /\ speaker_db
    /\ Abort("identification")

\* A --skip-corrections that skips the LLM stage as well.
SkipCorrectionsAndLlm ==
    /\ bpc = "CORRECT"
    /\ args.skip_corrections
    /\ bpc' = "BUILD"
    /\ UNCHANGED <<args, metadata, whisper_result, speaker_segments,
                   bsegments, speaker_info, output, raised>>
    /\ UNCHANGED <<speaker_db, called, baligned, llm_answer>>
    /\ UNCHANGED svars

\* line 395 with --skip-corrections
SkipCorrections ==
    /\ bpc = "CORRECT"
    /\ args.skip_corrections
    /\ bpc' = "LLM"
    /\ UNCHANGED <<args, metadata, whisper_result, speaker_segments,
                   bsegments, speaker_info, output, raised>>
    /\ UNCHANGED <<speaker_db, called, baligned, llm_answer>>
    /\ UNCHANGED svars

\* lines 291-299: no DictionaryCorrector module, or no corrections file
CorrectionsUnavailable ==
    /\ bpc = "CORRECT"
    /\ ~args.skip_corrections
    /\ bpc' = "LLM"
    /\ UNCHANGED <<args, metadata, whisper_result, speaker_segments,
                   bsegments, speaker_info, output, raised>>
    /\ called' = Append(called, "dictionary")
    /\ UNCHANGED <<speaker_db, baligned, llm_answer>>
    /\ UNCHANGED svars

\* lines 301-312
ApplyCorrections ==
    /\ bpc = "CORRECT"
    /\ ~args.skip_corrections
    /\ \E answers \in [1..Len(bsegments) -> UNION {DictAnswers(bsegments[i].text) :
                                                     i \in 1..Len(bsegments)}] :
         /\ \A i \in 1..Len(bsegments) :
               answers[i] \in DictAnswers(bsegments[i].text)
         /\ bsegments' = Corrected(bsegments, answers)
    /\ bpc' = "LLM"
    /\ UNCHANGED <<args, metadata, whisper_result, speaker_segments,
                   speaker_info, output, raised>>
    /\ called' = Append(called, "dictionary")
    /\ UNCHANGED <<speaker_db, baligned, llm_answer>>
    /\ UNCHANGED svars

\* lines 301-305: loading the rules or correcting raises (no handler)
CorrectionsRaise ==
    /\ bpc = "CORRECT"
    /\ ~args.skip_corrections
    /\ Abort("dictionary")

\* line 399 without --enable-llm-corrections
SkipLlm ==
    /\ bpc = "LLM"
    /\ ~args.enable_llm_corrections
    /\ bpc' = "BUILD"
    /\ UNCHANGED <<args, metadata, whisper_result, speaker_segments,
                   bsegments, speaker_info, output, raised>>
    /\ UNCHANGED <<speaker_db, called, baligned, llm_answer>>
    /\ UNCHANGED svars

\* lines 317-321: no LLMCorrector module
LlmUnavailable ==
    /\ bpc = "LLM"
    /\ args.enable_llm_corrections
    /\ bpc' = "BUILD"
    /\ UNCHANGED <<args, metadata, whisper_result, speaker_segments,
                   bsegments, speaker_info, output, raised>>
    /\ called' = Append(called, "llm")
    /\ UNCHANGED <<speaker_db, baligned, llm_answer>>
    /\ UNCHANGED svars

\* lines 323-338
ApplyLlmCorrections ==
    /\ bpc = "LLM"
    /\ args.enable_llm_corrections
    /\ \E answer \in LlmAnswers(FullText(bsegments)) :
         /\ llm_answer' = answer
         /\ bsegments' = Resplit(bsegments, answer.text, answer.total_corrections)
    /\ bpc' = "BUILD"
    /\ UNCHANGED <<args, metadata, whisper_result, speaker_segments,
                   speaker_info, output, raised>>
    /\ called' = Append(called, "llm")
    /\ UNCHANGED <<speaker_db, baligned>>
    /\ UNCHANGED svars

\* lines 323-326: creating the corrector or correcting raises (no handler)
LlmRaises ==
    /\ bpc = "LLM"
    /\ args.enable_llm_corrections
    /\ Abort("llm")

\* lines 403-414
WriteOutput ==
    /\ bpc = "BUILD"
    /\ output' = build_output(bsegments, speaker_info, metadata)
    /\ bpc' = "DONE"
    /\ UNCHANGED <<args, metadata, whisper_result, speaker_segments,
                   bsegments, speaker_info, raised>>
    /\ called' = Append(called, "output")
    /\ UNCHANGED <<speaker_db, baligned, llm_answer>>
    /\ UNCHANGED svars

BatchNext ==
    \/ Transcribe
    \/ TranscribeRaises
    \/ SkipDiarization
    \/ DiarizationUnavailable
    \/ Diarize
    \/ DiarizationRaises
    \/ Align
    \/ IdentifyUnavailable
    \/ Identify
    \/ IdentifyRaises
    \/ SkipCorrections
    \/ CorrectionsUnavailable
    \/ ApplyCorrections
    \/ CorrectionsRaise
    \/ SkipLlm
    \/ LlmUnavailable
    \/ ApplyLlmCorrections
    \/ LlmRaises
    \/ WriteOutput

---------------------------------------------------------------------------
(* postprocess.py from line 387 on, over a wider range of transcripts and   *)
(* turns: alignment and speaker identification                              *)

\* segments of the transcript at most
MaxAlignSegs == 3
\* turns of the diarization at most
MaxAlignTurns == 2

\* transcript segments (ms): midpoints 1000, 3000, 3499, 5000, 1250, 2500;
\* the third rounds to 3490..3500, a gap of 1490 after 2000, the fourth to
\* 5000..5000, a gap of 1500 after 3500; the last one has words with
\* midpoints 500, 4000, 4500, 1000
AlignSegPool ==
    { [start |-> 0, end |-> 2000, text |-> <<"h">>],
      [start |-> 2000, end |-> 4000, text |-> <<" ", "w", " ">>],
      [start |-> 3494, end |-> 3504, text |-> <<"x">>],
      [start |-> 4996, end |-> 5004, text |-> <<"y">>],
      [start |-> 1000, end |-> 1500, text |-> <<" ">>],
      [start |-> 0, end |-> 5000, text |-> <<"v">>,
       words |-> << [end |-> 1000], [start |-> 3500, end |-> 4500],
                    [start |-> 4000], [start |-> 500, end |-> 1500] >>] }

\* a transcript of two segments without words, "hello" and "world"
HelloWorld ==
    << [start |-> 0, end |-> 2000, text |-> <<"h", "e", "l", "l", "o">>],
       [start |-> 2000, end |-> 4000, text |-> <<"w", "o", "r", "l", "d">>] >>

AlignSegChoices ==
    UNION {[1..n -> AlignSegPool] : n \in 0..MaxAlignSegs} \cup {HelloWorld}

\* turns as run_diarization returns them (rounded to 10 ms)
AlignTurnPool ==
    { [start |-> 0, end |-> 3000, speaker |-> <<"A">>],
      [start |-> 3000, end |-> 5000, speaker |-> <<"B">>],
      [start |-> 0, end |-> 3000, speaker |-> <<"B">>],
      [start |-> 3000, end |-> 5000, speaker |-> <<"A">>],
      [start |-> 0, end |-> 5000, speaker |-> <<"B">>],
      [start |-> 6000, end |-> 7000, speaker |-> <<"B">>] }

AlignTurnChoices == UNION {[1..n -> AlignTurnPool] : n \in 0..MaxAlignTurns}

\* main at line 387: transcription and diarization have returned
AlignInit ==
    /\ bpc = "ALIGN"
    /\ args = [skip_diarization |-> FALSE, skip_corrections |-> FALSE,
               enable_llm_corrections |-> FALSE]
    /\ metadata = <<>>
    /\ whisper_result \in AlignSegChoices
    /\ speaker_segments \in AlignTurnChoices
    /\ bsegments = <<>>
    /\ speaker_info = <<>>
    /\ output = <<>>
    /\ raised = "none"
    /\ speaker_db \in BOOLEAN
    /\ called = <<"transcription", "diarization">>
    /\ baligned = <<>>
    /\ llm_answer = <<>>
    /\ pc = "IDLE"
    /\ buffer_seconds = 0
    /\ vocab_prompt = <<>>
    /\ elapsed_seconds = 0
    /\ previous_text = <<>>
    /\ audio = <<>>
    /\ chunk_start = 0
    /\ initial_prompt = <<>>
    /\ segments = <<>>
    /\ stdout = <<>>
    /\ chunks_read = 0
    /\ last_read = <<>>
    /\ stream_ended = FALSE
    /\ returned = <<>>
    /\ failures = 0

\* lines 387-392
AlignNext ==
    \/ Align
    \/ IdentifyUnavailable
    \/ Identify
    \/ IdentifyRaises

---------------------------------------------------------------------------
(* Specifications *)

\* the streaming program
Next == StreamNext

Spec == Init /\ [][Next]_vars

\* the loop is one thread that runs whenever it can take a step
FairSpec == Spec /\ WF_vars(Next)

\* the batch program
BatchSpec == BatchInit /\ [][BatchNext]_vars

\* alignment and identification alone
AlignSpec == AlignInit /\ [][AlignNext]_vars

---------------------------------------------------------------------------
(* Reading the run's history *)

Kinds(out) == [i \in 1..Len(out) |-> out[i].kind]

RECURSIVE SegmentLines(_)
SegmentLines(out) ==
    IF out = <<>> THEN <<>>
    ELSE IF Head(out).kind = "segment"
         THEN <<Head(out)>> \o SegmentLines(Tail(out))
         ELSE SegmentLines(Tail(out))

\* the segments of `returned` the for loop has gone through so far
Processed == SubSeq(returned, 1, Len(returned) - Len(segments))

InChunk == pc \in {"SILENCE_CHECK", "TRANSCRIBING", "EMITTING"}

\* RMS energy of the chunk below 0.005 (same scaling as IsSilent)
RmsBelowGate(a) == 625 * SumSq(a) < 16777216 * Len(a)

---------------------------------------------------------------------------
(* C1: the first line written is the one ready line and it is written      *)
(* before any audio is read; a done line is written only once, as the last *)
(* line, after end-of-input was observed; every segment line lies strictly *)
(* between the two and nothing follows done.                               *)
C1_ReadySegmentsDone ==
    /\ pc = "START" => (stdout = <<>> /\ chunks_read = 0)
    /\ pc # "START" => (stdout # <<>> /\ stdout[1].kind = "ready")
    /\ \A i \in 1..Len(stdout) :
         /\ stdout[i].kind = "ready" => i = 1
         /\ stdout[i].kind = "done" =>
               (i = Len(stdout) /\ i > 1 /\ pc = "DONE" /\ stream_ended
                   /\ Len(last_read) = 0)
         /\ stdout[i].kind = "segment" => i > 1
    /\ pc = "DONE" => stdout[Len(stdout)].kind = "done"

C1_Witness ==
    /\ pc = "DONE"
    /\ Len(stdout) >= 4
    /\ stdout[2].kind = "segment"
    /\ stdout[3].kind = "segment"

---------------------------------------------------------------------------
(* C2 as stated: elapsed equals k chunk durations after k chunks, whatever *)
(* the chunks' outcomes, and the done line carries exactly that total.     *)
C2_DoneCarriesExactTotal ==
    /\ elapsed_seconds = chunks_read * buffer_seconds
    /\ pc = "DONE" =>
          stdout[Len(stdout)].total_seconds = chunks_read * buffer_seconds

(* C2 amended: elapsed equals k chunk durations after k chunks, and the    *)
(* done line carries that total rounded to one decimal (a multiple of      *)
(* 0.1 s at most 0.05 s away), which is the total itself when the chunk    *)
(* duration is a multiple of 0.1 s.                                        *)
C2_ElapsedIsChunksTimesDuration ==
    /\ elapsed_seconds = chunks_read * buffer_seconds
    /\ pc = "DONE" =>
          LET total == stdout[Len(stdout)].total_seconds
              exact == chunks_read * buffer_seconds
          IN  /\ total % 100 = 0
              /\ total - exact <= 50
              /\ exact - total <= 50
              /\ buffer_seconds % 100 = 0 => total = exact

C2_Witness ==
    /\ pc = "DONE"
    /\ chunks_read = 3
    /\ failures >= 1
    /\ Len(returned) >= 1
    /\ Len(SegmentLines(stdout)) = 0
    /\ stdout[Len(stdout)].total_seconds = 800

---------------------------------------------------------------------------
(* C3: the silence check of a chunk whose RMS is below 0.005 goes straight *)
(* back to awaiting the next chunk: no transcription call, no line         *)
(* written, context text unchanged, and elapsed already stands one chunk   *)
(* duration past the chunk's start.                                        *)
C3_SilentChunkSkipped ==
    [][ (pc = "SILENCE_CHECK" /\ RmsBelowGate(audio)) =>
          /\ pc' = "AWAITING_CHUNK"
          /\ stdout' = stdout
          /\ previous_text' = previous_text
          /\ returned' = returned
          /\ failures' = failures
          /\ elapsed_seconds' = chunk_start + buffer_seconds
          /\ elapsed_seconds' = chunks_read * buffer_seconds ]_vars

C3_Witness ==
    /\ pc = "AWAITING_CHUNK"
    /\ chunks_read = 2
    /\ audio = Zeros(ChunkSamples)
    /\ Len(last_read) = ChunkSamples
    /\ previous_text # <<>>
    /\ Len(SegmentLines(stdout)) = 1
    /\ elapsed_seconds = 2 * buffer_seconds

---------------------------------------------------------------------------
(* C4: the loop iteration over a segment whose no-speech probability       *)
(* exceeds 0.6 writes nothing and leaves the context text alone, whatever  *)
(* the segment's text; one with probability exactly 0.6 and a non-blank    *)
(* text is written and becomes the context text.                           *)
C4_HallucinationFilter ==
    [][ (pc = "EMITTING" /\ segments # <<>>) =>
          LET seg == Head(segments) IN
          /\ seg.no_speech_prob > 6000 =>
                (stdout' = stdout /\ previous_text' = previous_text)
          /\ (seg.no_speech_prob = 6000 /\ \E i \in 1..Len(seg.text) :
                                               seg.text[i] # " ") =>
                /\ Len(stdout') = Len(stdout) + 1
                /\ stdout'[Len(stdout')].kind = "segment"
                /\ previous_text' = stdout'[Len(stdout')].text ]_vars

C4_Witness ==
    /\ pc = "AWAITING_CHUNK"
    /\ Len(returned) = 2
    /\ returned[1].seg.no_speech_prob > 6000
    /\ returned[2].seg.no_speech_prob = 6000
    /\ Len(SegmentLines(stdout)) = 1
    /\ previous_text = <<"h", "i">>

---------------------------------------------------------------------------
(* C5: a transcription call that raises writes no line, leaves the context *)
(* text and elapsed alone and puts the loop back to awaiting the next      *)
(* chunk; from there the run still reaches done, with the done line        *)
(* written last.                                                           *)
C5_FailureIsolated ==
    /\ [][ failures' # failures =>
             /\ pc = "TRANSCRIBING"
             /\ pc' = "AWAITING_CHUNK"
             /\ stdout' = stdout
             /\ previous_text' = previous_text
             /\ returned' = returned
             /\ elapsed_seconds' = elapsed_seconds ]_vars
    /\ (failures > 0) ~>
          (pc = "DONE" /\ stdout[Len(stdout)].kind = "done")

\* a chunk fails, the next one is transcribed and written, then done
C5_Witness ==
    /\ pc = "DONE"
    /\ failures = 1
    /\ chunks_read = 2
    /\ Len(returned) = 1
    /\ returned[1].chunk = 2
    /\ Len(SegmentLines(stdout)) = 1
    /\ SegmentLines(stdout)[1].start >= buffer_seconds

---------------------------------------------------------------------------
(* The texts of the segment lines against the texts of the segments the    *)
(* loop has gone through and that belong to `ok`                           *)
RECURSIVE TextsOf(_, _)
TextsOf(rs, ok) ==
    IF rs = <<>> THEN <<>>
    ELSE IF Head(rs).seg \in ok
         THEN <<Strip(Head(rs).seg.text)>> \o TextsOf(Tail(rs), ok)
         ELSE TextsOf(Tail(rs), ok)

LineTexts == LET ls == SegmentLines(stdout) IN [i \in 1..Len(ls) |-> ls[i].text]

NotHallucinated == {seg \in SegChoices : seg.no_speech_prob <= 6000}

NotHallucinatedNotBlank ==
    {seg \in SegChoices : /\ seg.no_speech_prob <= 6000
                          /\ \E i \in 1..Len(seg.text) : seg.text[i] # " "}

(* C6 as stated: the segment lines are, in order, the returned segments    *)
(* whose no-speech probability does not exceed 0.6.                        *)
C6_OneLinePerUnfilteredSegment ==
    LineTexts = TextsOf(Processed, NotHallucinated)

(* C6 amended: the segment lines are, in order, the returned segments      *)
(* whose no-speech probability does not exceed 0.6 and whose text is not   *)
(* empty after trimming.                                                   *)
C6_OneLinePerAcceptedSegment ==
    LineTexts = TextsOf(Processed, NotHallucinatedNotBlank)

C6_Witness ==
    /\ pc = "DONE"
    /\ Len(returned) = 3
    /\ returned[1].chunk = 1 /\ returned[2].chunk = 1 /\ returned[3].chunk = 3
    /\ LineTexts = <<Strip(LongText), <<"h", "i">> >>
    /\ returned[2].seg.text = <<" ">>

---------------------------------------------------------------------------
(* C7: whenever the engine is about to be called, the prompt is the vocab  *)
(* hint alone if no segment line has been written, else the hint, a space  *)
(* and the last 200 characters of the last segment line's text, trimmed.   *)
LastLineText ==
    LET ls == SegmentLines(stdout)
    IN  IF ls = <<>> THEN <<>> ELSE ls[Len(ls)].text

Last200(t) == [i \in 1..(IF Len(t) < 200 THEN Len(t) ELSE 200) |->
                  t[Len(t) - (IF Len(t) < 200 THEN Len(t) ELSE 200) + i]]

C7_ContextIsLastEmittedText ==
    pc = "TRANSCRIBING" =>
        initial_prompt =
            IF LastLineText = <<>> THEN vocab_prompt
            ELSE Strip(vocab_prompt \o <<" ">> \o Last200(LastLineText))

\* written, then a failed chunk and a chunk of discarded segments, then a call
C7_Witness ==
    /\ pc = "TRANSCRIBING"
    /\ chunks_read = 3
    /\ failures = 1
    /\ Len(returned) = 2
    /\ returned[1].chunk = 1
    /\ returned[1].seg.text = LongText
    /\ returned[2].chunk = 1
    /\ returned[2].seg.no_speech_prob > 6000
    /\ vocab_prompt = <<"v">>
    /\ Len(initial_prompt) = 202

---------------------------------------------------------------------------
(* C8: a read of at least one but fewer than a chunk's samples yields a    *)
(* full-length chunk, the samples read followed by zeros, that goes        *)
(* through the cycle with elapsed advanced by a whole chunk duration; the  *)
(* loop ends only on a read that returned nothing.                         *)
C8_ShortReadPadded ==
    /\ InChunk =>
          /\ Len(last_read) >= 1
          /\ Len(audio) = ChunkSamples
          /\ \A i \in 1..ChunkSamples :
                audio[i] = IF i <= Len(last_read) THEN last_read[i] ELSE 0
          /\ elapsed_seconds = chunk_start + buffer_seconds
          /\ elapsed_seconds = chunks_read * buffer_seconds
    /\ pc \in {"EOF", "DONE"} => Len(last_read) = 0

\* a short, voiced last read whose segment is written
C8_Witness ==
    /\ pc = "AWAITING_CHUNK"
    /\ chunks_read = 2
    /\ Len(last_read) = 1
    /\ audio = <<300>> \o Zeros(ChunkSamples - 1)
    /\ Len(returned) = 1
    /\ Len(SegmentLines(stdout)) = 1
    /\ SegmentLines(stdout)[1].start >= buffer_seconds

---------------------------------------------------------------------------
(* C9: the run reaches DONE; every chunk cycle comes back to               *)
(* AWAITING_CHUNK; a chunk is read only while none is in processing; the   *)
(* loop moves only along the transitions of the state machine, DONE being  *)
(* entered only from the observation of end-of-input.                      *)
Transitions ==
    { <<"START", "AWAITING_CHUNK">>,
      <<"AWAITING_CHUNK", "SILENCE_CHECK">>,
      <<"SILENCE_CHECK", "AWAITING_CHUNK">>,
      <<"SILENCE_CHECK", "TRANSCRIBING">>,
      <<"TRANSCRIBING", "EMITTING">>,
      <<"TRANSCRIBING", "AWAITING_CHUNK">>,
      <<"EMITTING", "AWAITING_CHUNK">>,
      <<"AWAITING_CHUNK", "EOF">>,
      <<"EOF", "DONE">> }

C9_ReachesDone ==
    /\ <>(pc = "DONE")
    /\ InChunk ~> (pc = "AWAITING_CHUNK")
    /\ [][ /\ pc' # pc => <<pc, pc'>> \in Transitions
           /\ chunks_read' # chunks_read =>
                 (pc = "AWAITING_CHUNK" /\ chunks_read' = chunks_read + 1)
           /\ (pc' = "EOF" /\ pc # "EOF") =>
                 (stream_ended' /\ last_read' = <<>>) ]_vars

C9_Witness ==
    /\ pc = "DONE"
    /\ chunks_read = MaxChunks
    /\ failures = 1
    /\ Len(SegmentLines(stdout)) = 2

---------------------------------------------------------------------------
(* C10 as stated: in the batch run no optional collaborator (diarization,  *)
(* speaker identification, dictionary correction, LLM correction) aborts   *)
(* the run, whether it is absent or fails: the run is never ended by an    *)
(* exception leaving one of these stages.  The code handles absence        *)
(* (ImportError, a missing file) only, so a collaborator that is present   *)
(* and raises ends the run before output assembly.                         *)
OptionalStages == {"diarization", "identification", "dictionary", "llm"}

C10_OptionalNeverAborts ==
    /\ raised \notin OptionalStages
    /\ bpc = "ABORTED" => raised = "transcription"

---------------------------------------------------------------------------
(* Reading the alignment's input and result *)

\* the text has a character that is not whitespace
NonBlank(seg) == \E i \in 1..Len(seg.text) : seg.text[i] \notin {" ", "\n"}

\* positions of the transcript segments whose text is not blank
KeptIdx(segs) == {k \in 1..Len(segs) : NonBlank(segs[k])}

\* position of the j-th of them
NthKept(segs, j) ==
    CHOOSE k \in KeptIdx(segs) :
        Cardinality({m \in KeptIdx(segs) : m <= k}) = j

\* the text between its first and its last non-whitespace character
Trimmed(t) ==
    LET ink == {i \in 1..Len(t) : t[i] \notin {" ", "\n"}}
    IN  IF ink = {} THEN <<>>
        ELSE SubSeq(t, CHOOSE i \in ink : \A j \in ink : i <= j,
                       CHOOSE i \in ink : \A j \in ink : j <= i)

\* x in ms to the nearest 10 ms (no input lies halfway)
Nearest10(x) == CHOOSE r \in (x - 4)..(x + 4) : r % 10 = 0

AlignReturned == bpc \in {"IDENTIFY", "CORRECT"} \/ raised = "identification"

---------------------------------------------------------------------------
(* C11: aligned against an empty turn sequence, the result has one segment *)
(* for each transcript segment whose text is not empty (after trimming),   *)
(* in order, and every one of them is attributed to "Unknown".             *)
C11_EmptyTurnsAllUnknown ==
    (AlignReturned /\ speaker_segments = <<>>) =>
        /\ Len(bsegments) = Cardinality(KeptIdx(whisper_result))
        /\ \A j \in 1..Len(bsegments) :
              /\ bsegments[j].speaker = <<"U", "n", "k", "n", "o", "w", "n">>
              /\ bsegments[j].text =
                    Trimmed(whisper_result[NthKept(whisper_result, j)].text)

\* three segments, the second one blank, no turns
C11_Witness ==
    /\ bpc = "IDENTIFY"
    /\ speaker_segments = <<>>
    /\ Len(whisper_result) = 3
    /\ ~NonBlank(whisper_result[2])
    /\ Len(bsegments) = 2
    /\ bsegments[2].text = <<"w">>

---------------------------------------------------------------------------
(* C12 as stated: with turns, the list before the merge loop has one       *)
(* segment for each transcript segment whose text is not empty after       *)
(* trimming, in input order, carrying that segment's start, end and        *)
(* trimmed text.                                                           *)
C12_OnePerNonBlankSegment ==
    (AlignReturned /\ speaker_segments # <<>>) =>
        /\ Len(baligned) = Cardinality(KeptIdx(whisper_result))
        /\ \A j \in 1..Len(baligned) :
              LET seg == whisper_result[NthKept(whisper_result, j)]
              IN  /\ baligned[j].start = seg.start
                  /\ baligned[j].end = seg.end
                  /\ baligned[j].text = Trimmed(seg.text)

(* C12 amended: the same, the start and the end being the transcript       *)
(* segment's rounded to two decimals.                                      *)
C12_OnePerNonBlankSegmentRounded ==
    (AlignReturned /\ speaker_segments # <<>>) =>
        /\ Len(baligned) = Cardinality(KeptIdx(whisper_result))
        /\ \A j \in 1..Len(baligned) :
              LET seg == whisper_result[NthKept(whisper_result, j)]
              IN  /\ baligned[j].start = Nearest10(seg.start)
                  /\ baligned[j].end = Nearest10(seg.end)
                  /\ baligned[j].text = Trimmed(seg.text)

\* blank, " w " and a segment of 3.494 s .. 3.504 s, with turns
C12_Witness ==
    /\ bpc = "IDENTIFY"
    /\ speaker_segments # <<>>
    /\ Len(whisper_result) = 3
    /\ ~NonBlank(whisper_result[1])
    /\ whisper_result[2].text = <<" ", "w", " ">>
    /\ whisper_result[3].start = 3494
    /\ Len(baligned) = 2
    /\ baligned[1].text = <<"w">>
    /\ baligned[2].start = 3490

---------------------------------------------------------------------------
(* C13: every iteration of the merge loop merges the current segment into  *)
(* the last accumulated one iff their speakers are equal and the current   *)
(* start minus the accumulated end is strictly less than 1.5 s; on a merge *)
(* the accumulated end becomes the current end and the text gets one space *)
(* and the current text, the rest staying as it was; otherwise the current *)
(* segment is appended as it is.  The result is what the last iteration    *)
(* leaves.                                                                 *)
\* the accumulated list after the first k iterations of the loop
MergedAfter(k) == Merge(SubSeq(baligned, 1, k), <<>>)

C13_MergeRule ==
    (AlignReturned /\ speaker_segments # <<>>) =>
        /\ bsegments = MergedAfter(Len(baligned))
        /\ MergedAfter(0) = <<>>
        /\ \A k \in 0..(Len(baligned) - 1) :
              LET acc == MergedAfter(k)
                  cur == baligned[k + 1]
                  nxt == MergedAfter(k + 1)
                  n == Len(acc)
              IN  IF n > 0 /\ acc[n].speaker = cur.speaker
                           /\ cur.start - acc[n].end < 1500
                  THEN /\ Len(nxt) = n
                       /\ \A i \in 1..(n - 1) : nxt[i] = acc[i]
                       /\ nxt[n].start = acc[n].start
                       /\ nxt[n].speaker = acc[n].speaker
                       /\ nxt[n].end = cur.end
                       /\ nxt[n].text = acc[n].text \o <<" ">> \o cur.text
                  ELSE nxt = Append(acc, cur)

\* one speaker: a gap of 1.49 s merged, then a gap of 1.5 s not merged
C13_Witness ==
    /\ bpc = "IDENTIFY"
    /\ Len(baligned) = 3
    /\ baligned[1].speaker = baligned[2].speaker
    /\ baligned[2].speaker = baligned[3].speaker
    /\ baligned[2].start - baligned[1].end = 1490
    /\ baligned[3].start - baligned[2].end = 1500
    /\ Len(bsegments) = 2
    /\ bsegments[1].end = baligned[2].end
    /\ bsegments[1].text = <<"h", " ", "x">>
    /\ bsegments[2] = baligned[3]

---------------------------------------------------------------------------
(* C14 as stated: the segments handed to the speaker identifier are merged *)
(* whatever the turns, an empty turn list included: no two adjacent        *)
(* segments have the same speaker and a gap below 1.5 s.  The empty-turns  *)
(* branch (lines 179-190) returns before the merge loop, so two adjacent   *)
(* "Unknown" segments 0 s apart reach the identifier unmerged.             *)
C14_IdentifierGetsMergedSegments ==
    bpc = "IDENTIFY" =>
        \A i \in 1..(Len(bsegments) - 1) :
            ~ /\ bsegments[i].speaker = bsegments[i + 1].speaker
              /\ bsegments[i + 1].start - bsegments[i].end < 1500

---------------------------------------------------------------------------
(* C15: the stage functions main has called so far are in the order        *)
(* transcription, diarization, align/merge, identification, dictionary,    *)
(* LLM, output, none of them twice; output assembly comes after align and  *)
(* identification; once past its place the dictionary stage has run iff    *)
(* --skip-corrections is off and the LLM stage iff                         *)
(* --enable-llm-corrections is on, each whatever the other flag.           *)
StageOrder ==
    <<"transcription", "diarization", "align", "identification",
      "dictionary", "llm", "output">>

StageRank(stage) == CHOOSE r \in 1..Len(StageOrder) : StageOrder[r] = stage

HasRun(stage) == \E i \in 1..Len(called) : called[i] = stage

C15_StagesInOrder ==
    /\ \A i \in 1..Len(called) : \E r \in 1..Len(StageOrder) :
                                     StageOrder[r] = called[i]
    /\ \A i, j \in 1..Len(called) :
          i < j => StageRank(called[i]) < StageRank(called[j])
    /\ HasRun("output") => (HasRun("align") /\ HasRun("identification"))
    /\ HasRun("identification") => HasRun("align")
    /\ bpc \in {"LLM", "BUILD", "DONE"} =>
          (HasRun("dictionary") <=> ~args.skip_corrections)
    /\ bpc \in {"BUILD", "DONE"} =>
          (HasRun("llm") <=> args.enable_llm_corrections)
    /\ bpc = "DONE" <=> HasRun("output")

\* both correction stages on: all seven stages, the dictionary before the LLM
C15_Witness ==
    /\ bpc = "DONE"
    /\ called = StageOrder
    /\ ~args.skip_corrections
    /\ args.enable_llm_corrections
    /\ llm_answer # <<>>

---------------------------------------------------------------------------
\* the step in which apply_llm_corrections got an answer from the corrector
LlmStep == bpc = "LLM" /\ bpc' = "BUILD" /\ llm_answer' # <<>>

NewlinesIn(t) == {i \in 1..Len(t) : t[i] = "\n"}

\* the lines of a block: what lies between consecutive newlines
BlockLines(t) ==
    LET nl == NewlinesIn(t)
        n == Cardinality(nl) + 1
        cut(k) == IF k = 0 THEN 0
                  ELSE IF k = n THEN Len(t) + 1
                  ELSE CHOOSE q \in nl : Cardinality({r \in nl : r <= q}) = k
    IN  [k \in 1..n |-> SubSeq(t, cut(k - 1) + 1, cut(k) - 1)]

\* the line without a leading "[label] "
WithoutLabelPrefix(line) ==
    LET close == {q \in 1..(Len(line) - 1) : line[q] = "]" /\ line[q + 1] = " "}
    IN  IF Len(line) > 0 /\ line[1] = "[" /\ close # {}
        THEN SubSeq(line, (CHOOSE q \in close : \A r \in close : q <= r) + 2,
                    Len(line))
        ELSE line

\* line i to segment i: segments beyond the last line keep their text, lines
\* beyond the last segment are dropped, nothing but the text changes
Reassigned(segs, lines) ==
    [i \in 1..Len(segs) |->
        IF i <= Len(lines)
        THEN [segs[i] EXCEPT !.text = WithoutLabelPrefix(lines[i])]
        ELSE segs[i]]

(* C16 as stated: the LLM stage gives segment i line i of the corrected    *)
(* block without its leading "[label] "; with fewer lines than segments    *)
(* the excess segments keep their text, with more lines the excess lines   *)
(* are dropped, and the number of segments does not change.                *)
C16_LinesBackToSegments ==
    [][LlmStep =>
         /\ Len(bsegments') = Len(bsegments)
         /\ bsegments' = Reassigned(bsegments, BlockLines(llm_answer'.text))]_vars

(* C16 as the code has it: the lines are those of the corrected block      *)
(* after its leading and trailing whitespace is removed, and they are      *)
(* assigned only when the corrector reports at least one correction;       *)
(* otherwise every segment is left as it was.                              *)
C16_StrippedLinesBackToSegments ==
    [][LlmStep =>
         /\ Len(bsegments') = Len(bsegments)
         /\ bsegments' =
              IF llm_answer'.total_corrections > 0
              THEN Reassigned(bsegments, BlockLines(Trimmed(llm_answer'.text)))
              ELSE bsegments]_vars

\* the answer "\n[A] z" for two segments: the first gets "z", the second
\* keeps its text
C16_Witness ==
    /\ bpc = "BUILD"
    /\ llm_answer # <<>>
    /\ llm_answer.text = <<"\n", "[", "A", "]", " ", "z">>
    /\ Len(bsegments) = 2
    /\ bsegments[1].text = <<"z">>
    /\ bsegments[2].text # <<"z">>
    /\ bsegments[2].text # <<>>

---------------------------------------------------------------------------
\* the step in which identify_speakers returns
IdentifyStep == bpc = "IDENTIFY" /\ bpc' = "CORRECT"

\* the labels other than "Unknown" that the segments carry
LabelsPresent(segs) ==
    {segs[i].speaker : i \in 1..Len(segs)} \ {UNKNOWN}

\* the sorted order of the labels the diarization gives here
LabelBefore(a, b) == a = <<"A">> /\ b = <<"B">>

---------------------------------------------------------------------------
MetadataFields == {"meetingId", "title", "startTime", "endTime", "attendees"}

\* the line "[speaker] text" of one segment
SegmentLine(seg) == <<"[">> \o seg.speaker \o <<"]", " ">> \o seg.text

(* C18: in the record main writes, fullText has one line per segment of    *)
(* the final list, line i being "[speaker_i] text_i", in the order of the  *)
(* segments, which are the segments as the correction stages left them;    *)
(* a metadata field the input lacks is empty in the record, and the        *)
(* assembly goes through whatever the metadata holds.                      *)
C18_FullTextAndDefaults ==
    /\ bpc = "BUILD" => ENABLED WriteOutput
    /\ bpc = "DONE" =>
          /\ raised = "none"
          /\ output.segments = bsegments
          /\ IF bsegments = <<>>
             THEN output.fullText = <<>>
             ELSE BlockLines(output.fullText) =
                      [i \in 1..Len(bsegments) |-> SegmentLine(bsegments[i])]
          /\ \A f \in MetadataFields :
                output[f] = IF f \in DOMAIN metadata THEN metadata[f] ELSE <<>>

\* no metadata field given; two segments, the first with the text the
\* dictionary stage gave it
C18_Witness ==
    /\ bpc = "DONE"
    /\ metadata = <<>>
    /\ HasRun("dictionary")
    /\ Len(output.segments) = 2
    /\ output.segments[1].text = <<"f", "i", "x">>
    /\ output.fullText =
          SegmentLine(bsegments[1]) \o <<"\n">> \o SegmentLine(bsegments[2])
    /\ output.title = <<>>
    /\ output.attendees = <<>>

---------------------------------------------------------------------------
\* the label each word of the segment votes for, in word order
WordLabels(seg, turns) ==
    [k \in 1..Len(seg.words) |->
        find_speaker_at(turns, Get(seg.words[k], "start", seg.start)
                               + Get(seg.words[k], "end", seg.end))]

\* votes for the label among the first k words
VotesUpTo(labels, l, k) == Cardinality({i \in 1..k : labels[i] = l})

\* the labels with the highest number of votes
TopLabels(labels) ==
    {labels[i] : i \in {j \in 1..Len(labels) :
        \A m \in 1..Len(labels) :
            VotesUpTo(labels, labels[m], Len(labels))
                <= VotesUpTo(labels, labels[j], Len(labels))}}

\* the word at which the label gets its last vote
ReachedAt(labels, l) ==
    CHOOSE k \in 1..Len(labels) :
        /\ labels[k] = l
        /\ VotesUpTo(labels, l, k) = VotesUpTo(labels, l, Len(labels))

\* the transcript segments with words that align_transcript_with_speakers,
\* given turns, has turned into segments of `aligned`
VotedIdx ==
    IF bpc = "IDENTIFY" /\ speaker_segments # <<>>
    THEN {j \in 1..Len(baligned) :
             Get(whisper_result[NthKept(whisper_result, j)], "words", <<>>) # <<>>}
    ELSE {}

(* C19: a segment with word timestamps gets the label with the most        *)
(* word-midpoint votes ("Unknown" is a label like any other), and of       *)
(* several labels with the most votes the one whose count got there first  *)
(* in word order.                                                          *)
C19_FirstToReachMaximum ==
    \A j \in VotedIdx :
        LET seg == whisper_result[NthKept(whisper_result, j)]
            labels == WordLabels(seg, speaker_segments)
        IN  /\ baligned[j].speaker \in TopLabels(labels)
            /\ \A l \in TopLabels(labels) :
                  ReachedAt(labels, baligned[j].speaker) <= ReachedAt(labels, l)

---------------------------------------------------------------------------
\* the transcript segments without words that align_transcript_with_speakers,
\* given turns, has turned into segments of `aligned`: each is resolved at
\* its midpoint
PlainIdx ==
    IF bpc = "IDENTIFY" /\ speaker_segments # <<>>
    THEN {j \in 1..Len(baligned) :
             Get(whisper_result[NthKept(whisper_result, j)], "words", <<>>) = <<>>}
    ELSE {}

\* the turns whose closed interval holds the midpoint of the segment
TurnsHolding(seg) ==
    {k \in 1..Len(speaker_segments) :
        /\ 2 * speaker_segments[k].start <= seg.start + seg.end
        /\ seg.start + seg.end <= 2 * speaker_segments[k].end}

(* C20: a point that lies in the closed interval of some turn resolves to  *)
(* the label of the first such turn in the order of the turn list, be it   *)
(* on a boundary two turns share or inside several turns, whatever turn    *)
(* is nearest to it.                                                       *)
C20_FirstContainingTurn ==
    \A j \in PlainIdx :
        LET holding == TurnsHolding(whisper_result[NthKept(whisper_result, j)])
        IN  holding # {} =>
                baligned[j].speaker =
                    speaker_segments[CHOOSE k \in holding :
                                        \A m \in holding : k <= m].speaker

\* turns B [0, 5] and A [3, 5]: the point 3.0 is on A's boundary and the
\* point 3.499 is nearer to an end of A's turn than to an end of B's; both
\* are B's
C20_Witness ==
    /\ bpc = "IDENTIFY"
    /\ speaker_segments = << [start |-> 0, end |-> 5000, speaker |-> <<"B">>],
                             [start |-> 3000, end |-> 5000, speaker |-> <<"A">>] >>
    /\ Len(whisper_result) = 2
    /\ whisper_result[1].start + whisper_result[1].end = 2 * 3000
    /\ whisper_result[2].start + whisper_result[2].end = 2 * 3499
    /\ PlainIdx = {1, 2}
    /\ baligned[1].speaker = <<"B">>
    /\ baligned[2].speaker = <<"B">>

---------------------------------------------------------------------------
\* twice the distance from the midpoint of the segment to the nearer end of
\* turn k
Dist2(seg, k) ==
    Min2(Abs(2 * speaker_segments[k].start - (seg.start + seg.end)),
         Abs(2 * speaker_segments[k].end - (seg.start + seg.end)))

\* the turns no other turn is nearer than
NearestTurns(seg) ==
    {k \in 1..Len(speaker_segments) :
        \A m \in 1..Len(speaker_segments) : Dist2(seg, k) <= Dist2(seg, m)}

(* C21: a point that no turn contains resolves to the label of the turn    *)
(* with the least distance min(|start - t|, |end - t|), the first in the   *)
(* list among turns equally near, if that distance is strictly below 2.0 s *)
(* and to "Unknown" otherwise: the label at 1.0 s from the nearest turn,   *)
(* "Unknown" at exactly 2.0 s and at 3.0 s.                                *)
C21_NearestTurnWithinTwoSeconds ==
    \A j \in PlainIdx :
        LET seg == whisper_result[NthKept(whisper_result, j)]
            first == CHOOSE k \in NearestTurns(seg) :
                         \A m \in NearestTurns(seg) : k <= m
        IN  TurnsHolding(seg) = {} =>
                baligned[j].speaker =
                    IF Dist2(seg, first) < 2 * 2000
                    THEN speaker_segments[first].speaker
                    ELSE UNKNOWN

\* the one turn B [6, 7]: the point 3.0 is 3.0 s away and is "Unknown", the
\* point 5.0 is 1.0 s away and is B's
C21_Witness ==
    /\ bpc = "IDENTIFY"
    /\ speaker_segments = << [start |-> 6000, end |-> 7000, speaker |-> <<"B">>] >>
    /\ Len(whisper_result) = 2
    /\ whisper_result[1].start + whisper_result[1].end = 2 * 3000
    /\ whisper_result[2].start + whisper_result[2].end = 2 * 5000
    /\ PlainIdx = {1, 2}
    /\ baligned[1].speaker = UNKNOWN
    /\ baligned[2].speaker = <<"B">>

---------------------------------------------------------------------------
\* align_transcript_with_speakers has run its merge loop (turns were given)
\* and main holds the merged segments
MergerRan == bpc = "IDENTIFY" /\ speaker_segments # <<>>

(* C22: the merge loop run on its own result gives that result back, the   *)
(* same segments with the same start, end, text and speaker, whatever the  *)
(* times of the input are, overlapping and out of order included.          *)
C22_MergeIdempotent ==
    MergerRan =>
        /\ bsegments = Merge(baligned, <<>>)
        /\ Merge(bsegments, <<>>) = bsegments

\* three aligned segments of one speaker, the third starting before the
\* second: the last two were merged, and merging again changes nothing
C22_Witness ==
    /\ MergerRan
    /\ Len(baligned) = 3
    /\ baligned[3].start < baligned[2].start
    /\ baligned[1].speaker = baligned[2].speaker
    /\ Len(bsegments) = 2
    /\ bsegments[2].text = baligned[2].text \o <<" ">> \o baligned[3].text
    /\ bsegments[2].end < bsegments[2].start
    /\ Merge(bsegments, <<>>) = bsegments

---------------------------------------------------------------------------
\* the returned segments the loop has gone through and written a line for,
\* each with the number of the chunk it came from
Emitted == SelectSeq(Processed, LAMBDA r : r.seg \in NotHallucinatedNotBlank)

\* the elapsed time before the k-th chunk
OffsetOf(k) == (k - 1) * buffer_seconds

(* C23 as stated: the start and end of every segment line are the offset   *)
(* of the chunk the segment came from (chunk index times chunk duration)   *)
(* plus the chunk-relative start and end the engine reported.              *)
C23_RebasedExactly ==
    LET ls == SegmentLines(stdout)
    IN  /\ Len(ls) = Len(Emitted)
        /\ \A i \in 1..Len(ls) :
              /\ ls[i].start = OffsetOf(Emitted[i].chunk) + Emitted[i].seg.start
              /\ ls[i].end = OffsetOf(Emitted[i].chunk) + Emitted[i].seg.end

(* C23 as the code has it: the start and end of every segment line are     *)
(* the offset of the chunk the segment came from plus the chunk-relative   *)
(* start and end, rounded to two decimals; the offset is that of the       *)
(* segment's own chunk, never an earlier or later one.                     *)
C23_RebasedAndRounded ==
    LET ls == SegmentLines(stdout)
    IN  /\ Len(ls) = Len(Emitted)
        /\ \A i \in 1..Len(ls) :
              /\ ls[i].start =
                    Nearest10(OffsetOf(Emitted[i].chunk) + Emitted[i].seg.start)
              /\ ls[i].end =
                    Nearest10(OffsetOf(Emitted[i].chunk) + Emitted[i].seg.end)
        /\ pc = "EMITTING" => chunk_start = OffsetOf(chunks_read)

\* " hi" (0 .. 1.234 s) from the first and from the third chunk of 3 s,
\* with a failed call in between
C23_Witness ==
    LET ls == SegmentLines(stdout)
    IN  /\ pc = "DONE"
        /\ buffer_seconds = 3000
        /\ failures = 1
        /\ Len(ls) = 2
        /\ Emitted[1].chunk = 1 /\ Emitted[2].chunk = 3
        /\ ls[1].start = 0 /\ ls[1].end = 1230
        /\ ls[2].start = 6000 /\ ls[2].end = 7230

---------------------------------------------------------------------------
\* every transcription call so far returned segments whose chunk-relative
\* starts lie in [0, chunk duration] and do not decrease
WellTimed ==
    \A i \in 1..Len(returned) :
        /\ 0 <= returned[i].seg.start
        /\ returned[i].seg.start <= buffer_seconds
        /\ (i > 1 /\ returned[i - 1].chunk = returned[i].chunk) =>
              returned[i - 1].seg.start <= returned[i].seg.start

(* C24: if every transcription call returns segments whose chunk-relative  *)
(* starts do not decrease and lie within [0, chunk duration], the starts   *)
(* of the segment lines written do not decrease over the whole stream,     *)
(* whatever chunks were silent, failed or voiced.                          *)
C24_StartsNeverDecrease ==
    WellTimed =>
        LET ls == SegmentLines(stdout)
        IN  \A i, j \in 1..Len(ls) : i < j => ls[i].start <= ls[j].start

\* two lines from the first chunk, a failed call on the second, a line
\* from the third
C24_Witness ==
    LET ls == SegmentLines(stdout)
    IN  /\ pc = "DONE"
        /\ WellTimed
        /\ failures = 1
        /\ chunks_read = 3
        /\ Len(ls) = 3
        /\ Emitted[2].chunk = 1 /\ Emitted[3].chunk = 3
        /\ ls[1].start < ls[2].start
        /\ ls[2].start < ls[3].start

---------------------------------------------------------------------------
\* the turns A [0, 3], B [3, 5]
TurnsAThenB ==
    << [start |-> 0, end |-> 3000, speaker |-> <<"A">>],
       [start |-> 3000, end |-> 5000, speaker |-> <<"B">>] >>

\* align_transcript_with_speakers has returned for "hello", "world" and
\* the turns A, B
HelloWorldAligned ==
    /\ bpc = "IDENTIFY"
    /\ whisper_result = HelloWorld
    /\ speaker_segments = TurnsAThenB

(* C25: the segments {0, 2, "hello"}, {2, 4, "world"} without words under  *)
(* the turns {0, 3, A}, {3, 5, B} are both A's (the midpoint 3.0 of the    *)
(* second is on the boundary of A and B and is A's), and they are merged   *)
(* into the one segment {0, 4, "hello world", A}.                          *)
C25_HelloWorld ==
    HelloWorldAligned =>
        /\ baligned =
              << [start |-> 0, end |-> 2000, speaker |-> <<"A">>,
                  text |-> <<"h", "e", "l", "l", "o">>],
                 [start |-> 2000, end |-> 4000, speaker |-> <<"A">>,
                  text |-> <<"w", "o", "r", "l", "d">>] >>
        /\ bsegments =
              << [start |-> 0, end |-> 4000, speaker |-> <<"A">>,
                  text |-> <<"h", "e", "l", "l", "o", " ",
                             "w", "o", "r", "l", "d">>] >>

C25_Witness ==
    /\ HelloWorldAligned
    /\ Len(baligned) = 2
    /\ baligned[2].speaker = <<"A">>
    /\ Len(bsegments) = 1
    /\ bsegments[1].end = 4000

---------------------------------------------------------------------------
\* the texts of aligned segments lo..hi, in order, a single space between
RECURSIVE RunText(_, _)
RunText(lo, hi) ==
    IF lo = hi THEN baligned[lo].text
    ELSE RunText(lo, hi - 1) \o <<" ">> \o baligned[hi].text

\* ways to give each aligned segment the number of a merged segment such
\* that the numbers start at 1, never step back, skip none and end at the
\* last merged segment: the runs, in order
RunsOf(n, m) ==
    {run \in [1..n -> 1..m] :
        /\ n > 0 => (run[1] = 1 /\ run[n] = m)
        /\ \A i \in 1..(n - 1) : run[i + 1] \in {run[i], run[i] + 1}}

(* C26: the merge loop loses and reorders nothing: the aligned sequence    *)
(* falls into consecutive runs, one per merged segment and in the same     *)
(* order; the segments of a run have the merged segment's speaker, its     *)
(* start is the start of the first of them, its end the end of the last,   *)
(* its text their texts in order with one space between; so there are      *)
(* never more merged than aligned segments.                                *)
C26_RunsPartitionAligned ==
    MergerRan =>
        /\ Len(bsegments) <= Len(baligned)
        /\ (baligned = <<>>) <=> (bsegments = <<>>)
        /\ \E run \in RunsOf(Len(baligned), Len(bsegments)) :
              \A k \in 1..Len(bsegments) :
                  LET members == {i \in 1..Len(baligned) : run[i] = k}
                      lo == CHOOSE i \in members : \A j \in members : i <= j
                      hi == CHOOSE i \in members : \A j \in members : j <= i
                  IN  /\ members # {}
                      /\ \A i \in members :
                            baligned[i].speaker = bsegments[k].speaker
                      /\ bsegments[k].start = baligned[lo].start
                      /\ bsegments[k].end = baligned[hi].end
                      /\ bsegments[k].text = RunText(lo, hi)

\* three aligned segments of one speaker in one merged segment
C26_Witness ==
    /\ MergerRan
    /\ Len(baligned) = 3
    /\ Len(bsegments) = 1
    /\ baligned[1].text # baligned[2].text
    /\ bsegments[1].start = baligned[1].start
    /\ bsegments[1].end = baligned[3].end
    /\ bsegments[1].text = baligned[1].text \o <<" ">> \o baligned[2].text
                               \o <<" ">> \o baligned[3].text

---------------------------------------------------------------------------
\* a step of the identification, dictionary or LLM stage
AfterAlignStep ==
    /\ bpc \in {"IDENTIFY", "CORRECT", "LLM"}
    /\ bpc' # bpc

===========================================================================
